---- MODULE Spec2Model ----
(***************************************************************************)
(* Model of the ollama_chat package: the per-session retrieval store of    *)
(* rag.py (an index file and a metadata file per session), the slash       *)
(* command dispatcher of core.py, the chat loop and the session prompt of  *)
(* cli.py, and the messages table of db.py.                                *)
(*                                                                         *)
(* A text is a sequence of characters.  An embedding is a pair of          *)
(* integers; the similarity of two embeddings is their inner product.     *)
(* A file is a record [exists, data]; the disk maps every path to a file.  *)
(***************************************************************************)
EXTENDS Integers, Sequences, FiniteSets

\* ------------------------------------------------------------------ bounds
\* Largest number of documents passed to add_documents in one run, and so the
\* largest number of vectors held by all index files together.
MaxTotal == 5
\* Largest number of rows a chat process adds to the messages table.
MaxMessages == 2

\* Largest number of rows of the messages table in the history store's runs.
MaxRows == 3
\* Largest number of seconds the database clock advances.
MaxNow == 2

\* ------------------------------------------------------------- input sets
Sessions == {"s1", "s2"}
Texts == {<<>>, <<"a">>}
Queries == {<<"a">>, <<"q">>}

\* The document batches a caller passes: no text, one text, or two texts.
Batches == {<<>>} \cup {<<t>> : t \in Texts} \cup {<<t, u>> : t \in Texts, u \in Texts}

\* The session of the chat process under study.
OneSession == {"s1"}

Min(a, b) == IF a <= b THEN a ELSE b

\* ------------------------------------------------------------ rag.py: pure
\* retrieve asks _search_index for k = 4 results.
K == 4

\* The separator retrieve joins the matched texts with: "\n---\n".
Sep == <<"\n", "-", "-", "-", "\n">>

\* EMBEDDER.encode of one text: a fixed vector per text (deterministic for a
\* fixed model). The query <<"a">> is nearest to the text <<"a">>, the query
\* <<"q">> is nearest to the empty text.
Embed(t) ==
  IF t = <<>> THEN <<0, 1>>
  ELSE IF t = <<"a">> THEN <<1, 0>>
  ELSE <<1, 2>>

\* EMBEDDER.encode(docs): one embedding per text, in input order.
Encode(docs) == [i \in 1..Len(docs) |-> Embed(docs[i])]

\* IndexFlatIP's similarity: the inner product.
Score(u, v) == u[1] * v[1] + u[2] * v[2]

_hash(text) == <<"sha256", text>>

_index_path(session_id) == <<session_id, ".index">>

\* A variant of _metadata_path that names one file for all sessions.
_metadata_path_Shared(session_id) == <<"s1", ".metadata.json">>

_metadata_path(session_id) == <<session_id, ".metadata.json">>

Paths == {_index_path(s) : s \in Sessions} \cup {_metadata_path(s) : s \in Sessions}

NoFile == [exists |-> FALSE, data |-> <<>>]

File(data) == [exists |-> TRUE, data |-> data]

\* _load_metadata on disk d: the stored list, or [] when there is no file.
_load_metadata(d, session_id) ==
  LET p == _metadata_path(session_id)
  IN  IF d[p].exists THEN d[p].data ELSE <<>>

\* _save_metadata on disk d: overwrite the metadata file with meta.
_save_metadata(d, session_id, meta) ==
  [d EXCEPT ![_metadata_path(session_id)] = File(meta)]

\* add_documents, lines 56-59: the stored index, or an empty IndexFlatIP.
LoadOrCreateIndex(d, session_id) ==
  LET p == _index_path(session_id)
  IN  IF d[p].exists THEN d[p].data ELSE <<>>

\* A variant of index.add that keeps only the new vectors.
IndexAdd_Replace(index, embeddings) == embeddings

\* index.add: the vectors are appended in input order.
IndexAdd(index, embeddings) == index \o embeddings

\* faiss.write_index on disk d.
WriteIndex(d, session_id, index) ==
  [d EXCEPT ![_index_path(session_id)] = File(index)]

\* A variant of the metadata update that records only the first document of
\* the batch.
MetaAppend_FirstOnly(meta, docs) ==
  meta \o <<[id |-> _hash(docs[1]), text |-> docs[1]]>>

\* A variant of the metadata update that puts the new records in front of
\* the stored ones.
MetaAppend_Prepend(meta, docs) ==
  [i \in 1..Len(docs) |-> [id |-> _hash(docs[i]), text |-> docs[i]]] \o meta

\* A variant of the metadata update that skips a document whose digest is
\* already recorded.
MetaAppend_Dedup(meta, docs) ==
  LET known == {meta[i].id : i \in DOMAIN meta}
      fresh == SelectSeq(docs, LAMBDA doc : _hash(doc) \notin known)
  IN  meta \o [i \in 1..Len(fresh) |-> [id |-> _hash(fresh[i]), text |-> fresh[i]]]

\* add_documents, lines 66-67: one record per document, appended in order.
MetaAppend(meta, docs) ==
  meta \o [i \in 1..Len(docs) |-> [id |-> _hash(docs[i]), text |-> docs[i]]]

\* index.search(q, k): the set of label rows the search may return. The first
\* min(ntotal, k) labels are the 0-based positions of the best-scoring vectors
\* in descending score order (positions of equal score in any order), the
\* remaining labels are -1.
RECURSIVE TopK(_, _, _, _)
TopK(S, index, q, k) ==
  IF k = 0 THEN {<<>>}
  ELSE IF S = {} THEN {[i \in 1..k |-> -1]}
  ELSE LET best == {i \in S : \A j \in S : Score(index[j], q) <= Score(index[i], q)}
       IN  UNION {{<<i - 1>> \o r : r \in TopK(S \ {i}, index, q, k - 1)} : i \in best}

IndexSearch(index, q, k) == TopK(1..Len(index), index, q, k)

\* A variant of the label mapping without the idx < 0 test: a negative label
\* indexes the metadata list from its end, as a Python list does.
RECURSIVE MapLabels_NoNegativeTest(_, _)
MapLabels_NoNegativeTest(I, meta) ==
  IF I = <<>> THEN <<>>
  ELSE LET idx == Head(I)
       IN  IF idx >= Len(meta) \/ Len(meta) + idx < 0
           THEN MapLabels_NoNegativeTest(Tail(I), meta)
           ELSE IF idx < 0
           THEN <<meta[Len(meta) + idx + 1].text>> \o MapLabels_NoNegativeTest(Tail(I), meta)
           ELSE <<meta[idx + 1].text>> \o MapLabels_NoNegativeTest(Tail(I), meta)

\* A variant of the label mapping that stops at the first label without a
\* metadata record (break for continue).
RECURSIVE MapLabels_Break(_, _)
MapLabels_Break(I, meta) ==
  IF I = <<>> THEN <<>>
  ELSE LET idx == Head(I)
       IN  IF idx < 0 \/ idx >= Len(meta)
           THEN <<>>
           ELSE <<meta[idx + 1].text>> \o MapLabels_Break(Tail(I), meta)

\* _search_index, lines 81-87: map the labels to texts, skipping a label that
\* is negative or has no metadata record.
RECURSIVE MapLabels(_, _)
MapLabels(I, meta) ==
  IF I = <<>> THEN <<>>
  ELSE LET idx == Head(I)
       IN  IF idx < 0 \/ idx >= Len(meta)
           THEN MapLabels(Tail(I), meta)
           ELSE <<meta[idx + 1].text>> \o MapLabels(Tail(I), meta)

\* "\n---\n".join(docs)
RECURSIVE Join(_)
Join(docs) ==
  IF docs = <<>> THEN <<>>
  ELSE IF Len(docs) = 1 THEN docs[1]
  ELSE docs[1] \o Sep \o Join(Tail(docs))

\* ------------------------------------------------------------------ state
VARIABLES
  disk,        \* path -> file: the index and metadata files under BASE_RAG_DIR
  last,        \* the latest completed add_documents / retrieve call and its outcome
  added,       \* session -> the texts stored by add_documents calls that returned
  called,      \* the sessions add_documents has been called for
  pc,          \* caller -> where its add_documents call stands
  loc,         \* caller -> the local variables of its add_documents call
  submitted,   \* session -> the number of documents passed to add_documents
  overlapped,  \* session -> whether two add_documents calls on it overlapped
  loop,        \* where the chat loop stands: "prompt", "finished" or "crashed"
  turn,        \* the latest user input and the error the retrieval calls raised in it
  reply,       \* what handle_command returned for the latest slash command
  files,       \* path -> file: the user's files that /file reads and writes
  messages,    \* the rows of the messages table, in insertion order
  calls,       \* per ollama_generate call, the number of rows the table held then
  table,       \* the messages table with its id and created_at columns
  now,         \* the second the database clock shows
  history,     \* the latest get_history call and the list it returned
  chosen       \* the latest choose_session call: the list shown, the input, the result

ragVars == <<disk, last, added, called>>

concVars == <<pc, loc, submitted, overlapped>>

chatVars == <<loop, turn, reply, files, messages, calls>>

dbVars == <<table, now, history, chosen>>

vars == <<disk, last, added, called, pc, loc, submitted, overlapped,
          loop, turn, reply, files, messages, calls, table, now, history,
          chosen>>

\* The calls that can raise inside add_documents and _search_index.
Faults == {"encode", "read_index", "write_index", "load_metadata", "save_metadata"}

IndexLen(d, s) == Len(d[_index_path(s)].data)

MetaLen(d, s) == Len(d[_metadata_path(s)].data)

TotalVecs(d) == IndexLen(d, "s1") + IndexLen(d, "s2")

\* ------------------------------------------------------- rag.py: operations
\* Whether the call named by fault is executed by add_documents(s, docs) on
\* disk d, so that it can be the one that raises.
AddFaultApplies(d, s, docs, fault) ==
  /\ docs # <<>>
  /\ fault = "read_index" => d[_index_path(s)].exists
  /\ fault = "load_metadata" => d[_metadata_path(s)].exists

\* add_documents, lines 54-68, where the call named by fault raises: the disk
\* the call leaves and the error it raises. A write that raises leaves its
\* file as it was.
AddAfterEncode(d, session_id, docs, fault) ==
  IF fault = "read_index" THEN [disk |-> d, err |-> fault]
  ELSE LET index == IndexAdd(LoadOrCreateIndex(d, session_id), Encode(docs))
       IN  IF fault = "write_index" THEN [disk |-> d, err |-> fault]
           ELSE LET d1 == WriteIndex(d, session_id, index)
                IN  IF fault = "load_metadata" THEN [disk |-> d1, err |-> fault]
                    ELSE LET meta == MetaAppend(_load_metadata(d1, session_id), docs)
                         IN  IF fault = "save_metadata"
                             THEN [disk |-> d1, err |-> fault]
                             ELSE [disk |-> _save_metadata(d1, session_id, meta),
                                   err |-> "none"]

\* A variant of add_documents that opens and writes the index file before it
\* encodes the documents.
add_documents_IndexFirst(d, session_id, docs, fault) ==
  IF docs = <<>> THEN [disk |-> d, err |-> "none"]
  ELSE IF fault = "encode"
  THEN [disk |-> WriteIndex(d, session_id, LoadOrCreateIndex(d, session_id)),
        err |-> fault]
  ELSE AddAfterEncode(d, session_id, docs, fault)

\* A variant of add_documents without the line-48 return: an empty batch is
\* encoded, added and written like any other.
add_documents_NoEarlyReturn(d, session_id, docs, fault) ==
  IF fault = "encode" THEN [disk |-> d, err |-> fault]
  ELSE AddAfterEncode(d, session_id, docs, fault)

\* add_documents(session_id, docs) on disk d, where the call named by fault
\* raises ("none": no call raises): the disk the call leaves and the error it
\* raises. Nothing is read or written before EMBEDDER.encode returns.
add_documents(d, session_id, docs, fault) ==
  IF docs = <<>> THEN [disk |-> d, err |-> "none"]
  ELSE IF fault = "encode" THEN [disk |-> d, err |-> fault]
  ELSE AddAfterEncode(d, session_id, docs, fault)

\* _search_index(session_id, query, k) on disk d: the lists it may return.
_search_index(d, session_id, query, k) ==
  IF ~d[_index_path(session_id)].exists THEN {<<>>}
  ELSE LET index == d[_index_path(session_id)].data
           meta == _load_metadata(d, session_id)
       IN  {MapLabels(I, meta) : I \in IndexSearch(index, Embed(query), k)}

\* Whether the call named by fault is executed by retrieve(s, query) on disk d.
RetrieveFaultApplies(d, s, fault) ==
  /\ d[_index_path(s)].exists
  /\ fault \in {"read_index", "encode", "load_metadata"}
  /\ fault = "load_metadata" => d[_metadata_path(s)].exists

Call(op, s, arg, err, out) ==
  [op |-> op, sid |-> s, arg |-> arg, err |-> err, out |-> out, text |-> Join(out)]

\* One add_documents call, from entry to return or raise: what it does to
\* the files, and its outcome.
AddDocuments(s, docs, fault) ==
  /\ TotalVecs(disk) + Len(docs) <= MaxTotal
  /\ fault = "none" \/ AddFaultApplies(disk, s, docs, fault)
  /\ LET r == add_documents(disk, s, docs, fault)
     IN  /\ disk' = r.disk
         /\ last' = Call("add", s, docs, r.err, <<>>)
         /\ added' = IF r.err = "none"
                     THEN [added EXCEPT ![s] = @ \cup {docs[i] : i \in 1..Len(docs)}]
                     ELSE added
         /\ called' = called \cup {s}

\* A variant of retrieve that loads the index the way add_documents does and
\* leaves an empty index file behind when the session has none.
Retrieve_Creating(s, query) ==
  /\ \E docs \in _search_index(disk, s, query, K) :
       last' = Call("retrieve", s, <<query>>, "none", docs)
  /\ disk' = WriteIndex(disk, s, LoadOrCreateIndex(disk, s))
  /\ UNCHANGED <<added, called>>

\* A variant of retrieve that keeps the result of the process's latest
\* retrieve call on the session in memory and answers from it.
Retrieve_Cached(s, query) ==
  /\ \E docs \in _search_index(disk, s, query, K) :
       last' = Call("retrieve", s, <<query>>, "none",
                    IF last.op = "retrieve" /\ last.sid = s /\ last.err = "none"
                    THEN last.out ELSE docs)
  /\ UNCHANGED <<disk, added, called>>

\* One retrieve call that returns.
Retrieve(s, query) ==
  /\ \E docs \in _search_index(disk, s, query, K) :
       last' = Call("retrieve", s, <<query>>, "none", docs)
  /\ UNCHANGED <<disk, added, called>>

\* A variant of the raising retrieve that removes an index file it could not
\* read.
RetrieveFails_Removing(s, query, fault) ==
  /\ RetrieveFaultApplies(disk, s, fault)
  /\ last' = Call("retrieve", s, <<query>>, fault, <<>>)
  /\ disk' = IF fault = "read_index" THEN [disk EXCEPT ![_index_path(s)] = NoFile] ELSE disk
  /\ UNCHANGED <<added, called>>

\* One retrieve call in which the call named by fault raises.
RetrieveFails(s, query, fault) ==
  /\ RetrieveFaultApplies(disk, s, fault)
  /\ last' = Call("retrieve", s, <<query>>, fault, <<>>)
  /\ UNCHANGED <<disk, added, called>>

\* ------------------------------------- rag.py: add_documents, step by step
\* Two callers that run add_documents without mutual exclusion. A call is
\* the sequence encode; read (or create) the index; add and write the index;
\* load the metadata; append and save the metadata.
Callers == {1, 2}

NoLocals == [sid |-> "s1", docs |-> <<>>, embeddings |-> <<>>, index |-> <<>>, meta |-> <<>>]

\* Lines 48-52: entry with a non-empty batch, and EMBEDDER.encode.
Begin(p, s, docs) ==
  /\ pc[p] = "idle"
  /\ docs # <<>>
  /\ submitted["s1"] + submitted["s2"] + Len(docs) <= MaxTotal
  /\ pc' = [pc EXCEPT ![p] = "encoded"]
  /\ loc' = [loc EXCEPT ![p] = [NoLocals EXCEPT !.sid = s, !.docs = docs,
                                                !.embeddings = Encode(docs)]]
  /\ submitted' = [submitted EXCEPT ![s] = @ + Len(docs)]
  /\ overlapped' = [overlapped EXCEPT ![s] =
                      @ \/ \E o \in Callers \ {p} : pc[o] # "idle" /\ loc[o].sid = s]
  /\ called' = called \cup {s}
  /\ UNCHANGED <<disk, last, added>>
  /\ UNCHANGED <<chatVars, dbVars>>

\* Lines 54-59: read the index file, or create an empty index.
ReadIndex(p) ==
  /\ pc[p] = "encoded"
  /\ pc' = [pc EXCEPT ![p] = "index_read"]
  /\ loc' = [loc EXCEPT ![p].index = LoadOrCreateIndex(disk, loc[p].sid)]
  /\ UNCHANGED <<disk, last, added, called, submitted, overlapped>>
  /\ UNCHANGED <<chatVars, dbVars>>

\* Lines 61-62: index.add and faiss.write_index.
AddAndWriteIndex(p) ==
  /\ pc[p] = "index_read"
  /\ pc' = [pc EXCEPT ![p] = "index_written"]
  /\ disk' = WriteIndex(disk, loc[p].sid, IndexAdd(loc[p].index, loc[p].embeddings))
  /\ UNCHANGED <<loc, last, added, called, submitted, overlapped>>
  /\ UNCHANGED <<chatVars, dbVars>>

\* Line 65: _load_metadata.
LoadMetadata(p) ==
  /\ pc[p] = "index_written"
  /\ pc' = [pc EXCEPT ![p] = "metadata_loaded"]
  /\ loc' = [loc EXCEPT ![p].meta = _load_metadata(disk, loc[p].sid)]
  /\ UNCHANGED <<disk, last, added, called, submitted, overlapped>>
  /\ UNCHANGED <<chatVars, dbVars>>

\* Lines 66-68: append the records, _save_metadata, return.
AppendAndSaveMetadata(p) ==
  /\ pc[p] = "metadata_loaded"
  /\ pc' = [pc EXCEPT ![p] = "idle"]
  /\ disk' = _save_metadata(disk, loc[p].sid, MetaAppend(loc[p].meta, loc[p].docs))
  /\ added' = [added EXCEPT ![loc[p].sid] =
                 @ \cup {loc[p].docs[i] : i \in 1..Len(loc[p].docs)}]
  /\ loc' = [loc EXCEPT ![p] = NoLocals]
  /\ UNCHANGED <<last, called, submitted, overlapped>>
  /\ UNCHANGED <<chatVars, dbVars>>

\* --------------------------------------- core.py and cli.py: the chat loop
\* The session the chat process runs (cli.py:55).
ChatSession == "s1"

\* The user's paths, the contents /file write is given, and the plain messages.
UserPaths == {"f"}
Contents == {<<"a">>}
UserMessages == {<<"hi">>}

\* The calls of the retrieval subsystem that raise during a chat: one that
\* raises before any file is touched, one that raises between the two writes.
ChatFaults == {"encode", "save_metadata"}

\* The commands that end the chat (core.py:85).
ExitCommands == {"/exit", "/quit", "/q"}

\* parts[0].lower()
Lower(cmd) == IF cmd = "/EXIT" THEN "/exit" ELSE cmd

\* What search() formats for a query that has results, and what the model answers.
SearchText == <<"* **t** - s">>
ModelReply == <<"m">>

Reply(should_continue, text) == [should_continue |-> should_continue, text |-> text]

\* A variant of the handlers' except clause that ends the chat.
TryExcept_Fatal(err, ok, prefix) ==
  IF err = "none" THEN Reply(TRUE, ok) ELSE Reply(FALSE, <<prefix, err>>)

\* The try/except of a handler: the reply of the try block when nothing was
\* raised, else (True, "[... error] <exc>").
TryExcept(err, ok, prefix) ==
  IF err = "none" THEN Reply(TRUE, ok) ELSE Reply(TRUE, <<prefix, err>>)

\* The prompt /rag builds from the query and the retrieved context.
RagPrompt(arg, context) ==
  <<"You are a helpful assistant.", "**User query:** ">> \o arg
    \o <<"**Relevant knowledge:**">> \o context
    \o <<"Answer the user using only the knowledge above.">>

\* cli.py:82: reply and reply.startswith("You are a helpful assistant")
IsRagPrompt(text) == text # <<>> /\ text[1] = "You are a helpful assistant."

Message(role, content) == [session_id |-> ChatSession, role |-> role, content |-> content]

\* A variant of the command branch that saves the command as a user message.
AfterCommand_Saving(input, err, r) ==
  /\ turn' = [input |-> input, err |-> err]
  /\ reply' = r
  /\ loop' = IF r.should_continue THEN "prompt" ELSE "finished"
  /\ messages' = IF Len(messages) < MaxMessages + 2
                 THEN Append(messages, Message("user", input)) ELSE messages
  /\ UNCHANGED calls

\* cli.py:86-92: the reply is printed and the loop goes on or ends.
AfterCommand(input, err, r) ==
  /\ turn' = [input |-> input, err |-> err]
  /\ reply' = r
  /\ loop' = IF r.should_continue THEN "prompt" ELSE "finished"
  /\ UNCHANGED <<messages, calls>>

\* cli.py:97-107: the user message is saved, the model is called with the
\* history, its reply is saved. ollama_generate may raise, which ends the
\* process after the user message was saved.
SendToModel(user_input) ==
  /\ 2 * Len(calls) + 2 <= MaxMessages
  /\ calls' = Append(calls, Len(messages) + 1)
  /\ \/ /\ messages' = messages \o <<Message("user", user_input),
                                    Message("assistant", ModelReply)>>
        /\ loop' = "prompt"
     \/ /\ messages' = Append(messages, Message("user", user_input))
        /\ loop' = "crashed"

\* /exit, /quit, /q in any letter case.
TurnExit(cmd) ==
  /\ loop = "prompt"
  /\ Lower(cmd) \in ExitCommands
  /\ AfterCommand(<<cmd>>, "none", Reply(FALSE, <<"Bye!">>))
  /\ UNCHANGED <<ragVars, files>>

\* "/file read" or "/file write" with too few words: the unpacking of
\* arg.split raises ValueError inside the try block.
TurnFileTooShort(op) ==
  /\ loop = "prompt"
  /\ AfterCommand(<<"/file", op>>, "none",
                  TryExcept("ValueError", <<>>,
                            IF op = "read" THEN "[file read error] "
                            ELSE "[file write error] "))
  /\ UNCHANGED <<ragVars, files>>

\* /file read <path>: read_file raises when there is no such file; else the
\* content is passed to add_documents, which may raise.
TurnFileRead(path) ==
  /\ loop = "prompt"
  /\ \/ /\ ~files[path].exists
        /\ AfterCommand(<<"/file", "read", path>>, "none",
                        TryExcept("FileNotFoundError", <<>>, "[file read error] "))
        /\ UNCHANGED ragVars
     \/ /\ files[path].exists
        /\ \E fault \in ChatFaults \cup {"none"} :
             AddDocuments(ChatSession, <<files[path].data>>, fault)
        /\ AfterCommand(<<"/file", "read", path>>, last'.err,
                        TryExcept(last'.err,
                                  <<"[file read] ", path, ":\n">> \o files[path].data,
                                  "[file read error] "))
  /\ UNCHANGED files

\* /file write <path> <content>: write_file may raise; else the file is
\* written and the content is passed to add_documents, which may raise.
TurnFileWrite(path, content) ==
  /\ loop = "prompt"
  /\ \/ /\ AfterCommand(<<"/file", "write", path>> \o content, "none",
                        TryExcept("OSError", <<>>, "[file write error] "))
        /\ UNCHANGED <<ragVars, files>>
     \/ /\ files' = [files EXCEPT ![path] = File(content)]
        /\ \E fault \in ChatFaults \cup {"none"} :
             AddDocuments(ChatSession, <<content>>, fault)
        /\ AfterCommand(<<"/file", "write", path>> \o content, last'.err,
                        TryExcept(last'.err, <<"[file written] ", path>>,
                                  "[file write error] "))

\* /search <query>: search may raise; else its results are formatted and
\* returned. The retrieval store is not touched.
TurnSearch(query) ==
  /\ loop = "prompt"
  /\ \E err \in {"none", "HTTPError"} :
       AfterCommand(<<"/search">> \o query, "none",
                    TryExcept(err, <<"[search results]\n">> \o SearchText,
                              "[search error] "))
  /\ UNCHANGED <<ragVars, files>>

\* /rag <query>: retrieve may raise; an empty context is answered with a
\* hint; else the prompt built from the context goes to the model as the
\* user's message.
TurnRag(query) ==
  /\ loop = "prompt"
  /\ \/ /\ \E fault \in ChatFaults : RetrieveFails(ChatSession, query, fault)
        /\ AfterCommand(<<"/rag">> \o query, last'.err,
                        TryExcept(last'.err, <<>>, "[RAG error] "))
     \/ /\ Retrieve(ChatSession, query)
        /\ IF last'.text = <<>>
           THEN AfterCommand(<<"/rag">> \o query, "none",
                             Reply(TRUE, <<"[RAG] No knowledge yet">>))
           ELSE /\ IsRagPrompt(RagPrompt(query, last'.text))
                /\ turn' = [input |-> <<"/rag">> \o query, err |-> "none"]
                /\ reply' = Reply(TRUE, RagPrompt(query, last'.text))
                /\ SendToModel(RagPrompt(query, last'.text))
  /\ UNCHANGED files

\* Any other word that starts with a slash.
TurnUnknown(cmd) ==
  /\ loop = "prompt"
  /\ Lower(cmd) \notin ExitCommands \cup {"/file", "/search", "/rag"}
  /\ AfterCommand(<<cmd>>, "none", Reply(TRUE, <<"[unknown command] ", cmd>>))
  /\ UNCHANGED <<ragVars, files>>

\* An input that is no slash command.
TurnMessage(text) ==
  /\ loop = "prompt"
  /\ turn' = [input |-> text, err |-> "none"]
  /\ SendToModel(text)
  /\ UNCHANGED <<ragVars, files, reply>>

\* ------------------------------------------------------------------ db.py
Roles == {"user", "assistant"}

\* add_message: one more row; id is the next autoincrement value, created_at
\* defaults to func.now(), the database clock, which counts whole seconds.
add_message(session_id, role, content) ==
  /\ Len(table) < MaxRows
  /\ table' = Append(table, [id |-> Len(table) + 1, session_id |-> session_id,
                             role |-> role, content |-> content, created_at |-> now])
  /\ UNCHANGED <<now, history, chosen>>

\* A second passes on the database clock.
Tick ==
  /\ now < MaxNow
  /\ now' = now + 1
  /\ UNCHANGED <<table, history, chosen>>

\* The rows of session_id in table t, as positions of t.
SessionRows(t, session_id) == {i \in DOMAIN t : t[i].session_id = session_id}

\* The orders in which ORDER BY created_at may deliver the rows R of t: any
\* order in which created_at does not decrease. SQL leaves the order of
\* rows with equal sort keys open.
OrderByCreatedAt(t, R) ==
  {f \in [1..Cardinality(R) -> R] :
     /\ \A i, j \in 1..Cardinality(R) : i # j => f[i] # f[j]
     /\ \A i, j \in 1..Cardinality(R) : i < j => t[f[i]].created_at <= t[f[j]].created_at}

\* get_history: the (role, content) pairs of the session's rows, ordered by
\* created_at.
get_history(session_id) ==
  /\ \E f \in OrderByCreatedAt(table, SessionRows(table, session_id)) :
       history' = [session_id |-> session_id,
                   rows |-> [i \in DOMAIN f |-> <<table[f[i]].role, table[f[i]].content>>]]
  /\ UNCHANGED <<table, now, chosen>>

\* The sessions that have rows in table t, and the latest created_at of each.
StoredSessions(t) == {t[i].session_id : i \in DOMAIN t}

MaxCreatedAt(t, session_id) ==
  CHOOSE m \in {t[i].created_at : i \in SessionRows(t, session_id)} :
    \A i \in SessionRows(t, session_id) : t[i].created_at <= m

\* list_sessions: one (session_id, max(created_at)) pair per session, latest
\* first; the lists the query may return (sessions of the same second in
\* any order).
list_sessions(t) ==
  LET S == StoredSessions(t)
  IN  {[i \in 1..Cardinality(S) |-> <<f[i], MaxCreatedAt(t, f[i])>>] :
         f \in {g \in [1..Cardinality(S) -> S] :
                  /\ \A i, j \in 1..Cardinality(S) : i # j => g[i] # g[j]
                  /\ \A i, j \in 1..Cardinality(S) :
                       i < j => MaxCreatedAt(t, g[i]) >= MaxCreatedAt(t, g[j])}}

\* ------------------------------------------------- cli.py: choose_session
\* What the user may type at the prompt.
Choices == {<<>>, <<" ">>, <<"x">>, <<"0">>, <<"1">>, <<"2">>, <<"3">>,
            <<" ", "2">>, <<"-", "1">>, <<"-", "2">>, <<"-", "3">>}

\* str.strip()
RECURSIVE Strip(_)
Strip(str) ==
  IF str = <<>> THEN <<>>
  ELSE IF Head(str) = " " THEN Strip(Tail(str))
  ELSE IF str[Len(str)] = " " THEN Strip(SubSeq(str, 1, Len(str) - 1))
  ELSE str

Digits == {"0", "1", "2", "3", "4", "5", "6", "7", "8", "9"}

DigitValue(c) ==
  CASE c = "0" -> 0 [] c = "1" -> 1 [] c = "2" -> 2 [] c = "3" -> 3 [] c = "4" -> 4
    [] c = "5" -> 5 [] c = "6" -> 6 [] c = "7" -> 7 [] c = "8" -> 8 [] c = "9" -> 9

RECURSIVE Decimal(_)
Decimal(ds) ==
  IF ds = <<>> THEN 0 ELSE 10 * Decimal(SubSeq(ds, 1, Len(ds) - 1)) + DigitValue(ds[Len(ds)])

\* Whether int(str) returns: surrounding blanks, an optional sign, digits.
IsInt(str) ==
  LET body == Strip(str)
      ds == IF body # <<>> /\ Head(body) \in {"-", "+"} THEN Tail(body) ELSE body
  IN  ds # <<>> /\ \A i \in DOMAIN ds : ds[i] \in Digits

\* int(str), where it returns.
int(str) ==
  LET body == Strip(str)
  IN  IF Head(body) = "-" THEN 0 - Decimal(Tail(body))
      ELSE IF Head(body) = "+" THEN Decimal(Tail(body))
      ELSE Decimal(body)

\* str(uuid.uuid4()): an identifier no stored session has.
NewSession == "uuid4"

\* sessions[i] of a Python list: i counts from 0, a negative i from the end;
\* whether it is in range (else IndexError).
InRange(sessions, i) == 0 - Len(sessions) <= i /\ i < Len(sessions)

Item(sessions, i) == IF i >= 0 THEN sessions[i + 1] ELSE sessions[Len(sessions) + i + 1]

\* choose_session for the list shown and the input typed.
choose_session(sessions, choice) ==
  IF sessions = <<>> THEN NewSession
  ELSE IF Strip(choice) = <<>> THEN NewSession
  ELSE IF ~IsInt(choice) THEN NewSession
  ELSE LET i == int(choice) - 1
       IN  IF InRange(sessions, i) THEN Item(sessions, i)[1] ELSE NewSession

\* One choose_session call at the start of a chat process.
ChooseSession(choice) ==
  /\ \E sessions \in list_sessions(table) :
       chosen' = [sessions |-> sessions, choice |-> choice,
                  session_id |-> choose_session(sessions, choice)]
  /\ UNCHANGED <<table, now, history>>

\* ------------------------------------------------ callers of the rag API
AddOK(S) ==
  /\ \E s \in S, docs \in Batches : AddDocuments(s, docs, "none")
  /\ UNCHANGED <<concVars, chatVars, dbVars>>

AddFails(S) ==
  /\ \E s \in S, docs \in Batches, f \in Faults : AddDocuments(s, docs, f)
  /\ UNCHANGED <<concVars, chatVars, dbVars>>

RetrieveOK(S) ==
  /\ \E s \in S, q \in Queries : Retrieve(s, q)
  /\ UNCHANGED <<concVars, chatVars, dbVars>>

RetrieveRaises(S) ==
  /\ \E s \in S, q \in Queries, f \in Faults : RetrieveFails(s, q, f)
  /\ UNCHANGED <<concVars, chatVars, dbVars>>

InitDisk ==
  /\ disk = [p \in Paths |-> NoFile]
  /\ last = Call("none", "s1", <<>>, "none", <<>>)
  /\ added = [s \in Sessions |-> {}]
  /\ called = {}
  /\ pc = [p \in Callers |-> "idle"]
  /\ loc = [p \in Callers |-> NoLocals]
  /\ submitted = [s \in Sessions |-> 0]
  /\ overlapped = [s \in Sessions |-> FALSE]
  /\ loop = "prompt"
  /\ turn = [input |-> <<>>, err |-> "none"]
  /\ reply = [should_continue |-> TRUE, text |-> <<>>]
  /\ calls = <<>>
  /\ table = <<>>
  /\ now = 0
  /\ history = [session_id |-> "s1", rows |-> <<>>]
  /\ chosen = [sessions |-> <<>>, choice |-> <<>>, session_id |-> "none"]

InitRag == InitDisk /\ messages = <<>>

Init == InitRag /\ files = [p \in UserPaths |-> NoFile]

\* The serialized callers of one session; any call may raise.
Next ==
  \/ AddOK(OneSession)
  \/ AddFails(OneSession)
  \/ RetrieveOK(OneSession)
  \/ RetrieveRaises(OneSession)

Spec == Init /\ [][Next]_vars

\* The serialized callers of two sessions; every call runs to completion.
NextSessions == AddOK(Sessions) \/ RetrieveOK(Sessions)

SpecSessions == Init /\ [][NextSessions]_vars

\* Two unsynchronized callers of add_documents on one session; no call raises.
NextConc ==
  \/ \E p \in Callers, s \in OneSession, docs \in Batches : Begin(p, s, docs)
  \/ \E p \in Callers : ReadIndex(p)
  \/ \E p \in Callers : AddAndWriteIndex(p)
  \/ \E p \in Callers : LoadMetadata(p)
  \/ \E p \in Callers : AppendAndSaveMetadata(p)

SpecConc == Init /\ [][NextConc]_vars

\* The rows an earlier chat process left for the session: one exchange.
Resumed == <<Message("user", <<"hi">>), Message("assistant", ModelReply)>>

\* The chat loop of one session, new or resumed; the file may exist, empty,
\* before the chat.
InitChat ==
  /\ InitDisk
  /\ messages \in {<<>>, Resumed}
  /\ files \in [UserPaths -> {NoFile, File(<<>>)}]

NextChat ==
  \/ \E cmd \in {"/exit", "/quit", "/q", "/EXIT"} : TurnExit(cmd) /\ UNCHANGED <<concVars, dbVars>>
  \/ \E op \in {"read", "write"} : TurnFileTooShort(op) /\ UNCHANGED <<concVars, dbVars>>
  \/ \E path \in UserPaths : TurnFileRead(path) /\ UNCHANGED <<concVars, dbVars>>
  \/ \E path \in UserPaths, content \in Contents :
       TurnFileWrite(path, content) /\ UNCHANGED <<concVars, dbVars>>
  \/ \E query \in {<<"q">>} : TurnSearch(query) /\ UNCHANGED <<concVars, dbVars>>
  \/ \E query \in {<<"a">>} : TurnRag(query) /\ UNCHANGED <<concVars, dbVars>>
  \/ \E cmd \in {"/foo"} : TurnUnknown(cmd) /\ UNCHANGED <<concVars, dbVars>>
  \/ \E text \in UserMessages : TurnMessage(text) /\ UNCHANGED <<concVars, dbVars>>

SpecChat == InitChat /\ [][NextChat]_vars

\* The history store: messages are added to two sessions and read back.
NextDb ==
  \/ \E s \in Sessions, role \in Roles, content \in UserMessages :
       add_message(s, role, content) /\ UNCHANGED <<ragVars, concVars, chatVars>>
  \/ Tick /\ UNCHANGED <<ragVars, concVars, chatVars>>
  \/ \E s \in Sessions : get_history(s) /\ UNCHANGED <<ragVars, concVars, chatVars>>

SpecDb == Init /\ [][NextDb]_vars

\* Chat processes start while messages are added to the sessions.
NextCli ==
  \/ \E s \in Sessions, role \in Roles, content \in UserMessages :
       add_message(s, role, content) /\ UNCHANGED <<ragVars, concVars, chatVars>>
  \/ Tick /\ UNCHANGED <<ragVars, concVars, chatVars>>
  \/ \E choice \in Choices : ChooseSession(choice) /\ UNCHANGED <<ragVars, concVars, chatVars>>

SpecCli == Init /\ [][NextCli]_vars

\* ================================================================== claims
Aligned(d, s) == IndexLen(d, s) = MetaLen(d, s)

Count(seq, t) == Cardinality({i \in DOMAIN seq : seq[i] = t})

MetaTexts(d, s) == [i \in 1..MetaLen(d, s) |-> d[_metadata_path(s)].data[i].text]

\* C1: when the calls on a session are serialized and each runs to completion,
\* after every call the persisted index of each session holds as many vectors
\* as its persisted metadata list holds records.
C1_Alignment == \A s \in Sessions : Aligned(disk, s)

C1_Witness ==
  /\ last.op = "add" /\ last.err = "none" /\ Len(last.arg) = 2
  /\ IndexLen(disk, last.sid) >= 3
  /\ MetaLen(disk, last.sid) = IndexLen(disk, last.sid)

\* C2: after an add_documents call in which persisting the index or persisting
\* the metadata raised, the persisted index length still equals the persisted
\* metadata length.
C2_AlignedAfterFailedPersist ==
  (last.op = "add" /\ last.err \in {"write_index", "save_metadata"})
    => Aligned(disk, last.sid)

\* C3: an add_documents (of a non-empty batch) or retrieve call that returns
\* normally never worked on a session whose persisted index length differs
\* from its persisted metadata length. A retrieve leaves both files as they
\* were and a returning add_documents extends both by the batch size, so the
\* pair the call loaded was aligned exactly when the pair it leaves is.
C3_NoResultFromMisalignedPair ==
  (last.op \in {"add", "retrieve"} /\ last.err = "none" /\ last.arg # <<>>)
    => Aligned(disk, last.sid)

\* C4: an add_documents call in which the embedder raises leaves every file
\* as it was before the call: nothing is created and nothing is modified.
C4_EmbedFailureWritesNothing ==
  [][(last'.op = "add" /\ last'.err = "encode") => disk' = disk]_vars

C4_Witness ==
  /\ last.op = "add" /\ last.err = "encode"
  /\ ~disk[_index_path(last.sid)].exists
  /\ ~disk[_metadata_path(last.sid)].exists

\* The persisted pair of session s is damaged: the lengths differ, or some
\* vector is not the embedding of the text of the record at its position, or
\* fewer vectors or records are stored than documents were passed in.
Damaged(d, s) ==
  \/ IndexLen(d, s) # MetaLen(d, s)
  \/ \E i \in 1..Min(IndexLen(d, s), MetaLen(d, s)) :
       d[_index_path(s)].data[i] # Embed(d[_metadata_path(s)].data[i].text)
  \/ IndexLen(d, s) < submitted[s]
  \/ MetaLen(d, s) < submitted[s]

AllIdle == \A p \in Callers : pc[p] = "idle"

\* C5: with unsynchronized callers the alignment invariant is not safe: two
\* overlapping add_documents calls on one session can leave the persisted pair
\* damaged (C5_Witness is such an outcome), and once all calls have returned,
\* the pair is damaged only if two calls on the session overlapped.
C5_DamageOnlyByOverlap ==
  AllIdle => \A s \in Sessions : Damaged(disk, s) => overlapped[s]

C5_Witness ==
  /\ AllIdle
  /\ IndexLen(disk, "s1") # MetaLen(disk, "s1")
  /\ disk["s1", ".index"].data[1] # Embed(disk["s1", ".metadata.json"].data[1].text)
  /\ MetaLen(disk, "s1") < submitted["s1"]

\* C6: retrieve on a session for which add_documents was never called raises
\* nothing, returns the empty string and leaves the session without an index
\* file and without a metadata file.
C6_EmptySession ==
  (last.op = "retrieve" /\ last.sid \notin called)
    => /\ last.err = "none"
       /\ last.text = <<>>
       /\ ~disk[_index_path(last.sid)].exists
       /\ ~disk[_metadata_path(last.sid)].exists

C6_Witness == last.op = "retrieve" /\ last.sid \notin called

\* C7: when the session holds n documents (n vectors and n records), a
\* retrieve that returns has matched exactly min(n, K) texts, each of them a
\* stored text counted no more often than it is stored; when n <= K these are
\* exactly the n stored texts, each once per stored copy.
C7_MinOfCorpusAndK ==
  (last.op = "retrieve" /\ last.err = "none" /\ Aligned(disk, last.sid))
    => LET n == MetaLen(disk, last.sid)
           stored == MetaTexts(disk, last.sid)
       IN  /\ Len(last.out) = Min(n, K)
           /\ \A t \in Texts : Count(last.out, t) <= Count(stored, t)
           /\ n <= K => \A t \in Texts : Count(last.out, t) = Count(stored, t)

C7_Witness ==
  /\ last.op = "retrieve" /\ last.err = "none"
  /\ IndexLen(disk, last.sid) = 2 /\ MetaLen(disk, last.sid) = 2
  /\ Len(last.out) = 2
  /\ last.out[1] # last.out[2]

\* C8: add_documents(s, ...) leaves the index file and the metadata file of
\* every other session as they were, and retrieve(s, ...) returns only texts
\* stored by add_documents(s, ...).
C8_SessionPartition ==
  [][/\ last'.op = "add" =>
          \A s \in Sessions \ {last'.sid} :
            /\ disk'[_index_path(s)] = disk[_index_path(s)]
            /\ disk'[_metadata_path(s)] = disk[_metadata_path(s)]
     /\ last'.op = "retrieve" =>
          \A i \in DOMAIN last'.out : last'.out[i] \in added'[last'.sid]]_vars

C8_Witness ==
  /\ added["s1"] = {<<"a">>} /\ added["s2"] = {<<>>}
  /\ last.op = "retrieve" /\ last.sid = "s2"
  /\ last.out = <<<<>>>>

\* C9: a slash command in which add_documents or retrieve raised is answered
\* with should_continue = TRUE and an error message, and the chat loop is back
\* at its prompt; handle_command returns should_continue = FALSE, and the loop
\* finishes, only for /exit, /quit and /q.
C9_RetrievalNeverEndsChat ==
  /\ turn.err # "none" =>
       /\ reply.should_continue
       /\ reply.text[1] \in {"[file read error] ", "[file write error] ", "[RAG error] "}
       /\ reply.text[2] = turn.err
       /\ loop = "prompt"
  /\ (~reply.should_continue \/ loop = "finished") =>
       Lower(turn.input[1]) \in ExitCommands

C9_Witness ==
  /\ turn.err = "save_metadata"
  /\ turn.input[1] = "/file" /\ turn.input[2] = "write"
  /\ reply.should_continue
  /\ loop = "prompt"

\* The latest input was the slash command cmd (the reply is the one to it).
LatestCommand(cmd) == turn.input # <<>> /\ turn.input[1] = cmd

\* C10: after a /file read, /file write or /search command that succeeded,
\* the file content or the search-result text has been stored in the chat
\* session's retrieval store by an add_documents call that returned.
C10_CommandTextIngested ==
  /\ (LatestCommand("/file") /\ reply.text[1] = "[file read] ") =>
       SubSeq(reply.text, 4, Len(reply.text)) \in added[ChatSession]
  /\ (LatestCommand("/file") /\ reply.text[1] = "[file written] ") =>
       SubSeq(turn.input, 4, Len(turn.input)) \in added[ChatSession]
  /\ (LatestCommand("/search") /\ reply.text[1] = "[search results]\n") =>
       SubSeq(reply.text, 2, Len(reply.text)) \in added[ChatSession]

\* The part of C10 the code satisfies: the two /file commands ingest.
C10_FileCommandsIngest ==
  /\ (LatestCommand("/file") /\ reply.text[1] = "[file read] ") =>
       SubSeq(reply.text, 4, Len(reply.text)) \in added[ChatSession]
  /\ (LatestCommand("/file") /\ reply.text[1] = "[file written] ") =>
       SubSeq(turn.input, 4, Len(turn.input)) \in added[ChatSession]

\* C11: add_documents with an empty batch is a no-op: no call of it can raise
\* (EMBEDDER.encode is not reached), and it leaves every index file and every
\* metadata file as it was, an absent file absent.
C11_EmptyBatchNoOp ==
  [][(last'.op = "add" /\ last'.arg = <<>>) =>
       /\ last'.err = "none"
       /\ disk' = disk]_vars

C11_Witness ==
  /\ last.op = "add" /\ last.arg = <<>>
  /\ ~disk[_index_path("s1")].exists
  /\ ~disk[_metadata_path("s1")].exists

\* The metadata list persisted for session s on disk d ([] when no file).
Persisted(d, s) == d[_metadata_path(s)].data

IsPrefix(a, b) == Len(a) <= Len(b) /\ SubSeq(b, 1, Len(a)) = a

\* C12: with the calls on a session serialized, no call (returning or
\* raising) changes or removes a persisted metadata record: the list persisted
\* before it is a prefix of the list persisted after it. After an
\* add_documents(s, texts) that returned, the list of s is the former list
\* followed by one record per text, in the order of texts, each holding the
\* text and its digest.
C12_AppendOnly ==
  [][/\ \A s \in Sessions : IsPrefix(Persisted(disk, s), Persisted(disk', s))
     /\ (last'.op = "add" /\ last'.err = "none") =>
          LET old == Persisted(disk, last'.sid)
              new == Persisted(disk', last'.sid)
              texts == last'.arg
          IN  /\ Len(new) = Len(old) + Len(texts)
              /\ \A i \in 1..Len(texts) :
                   new[Len(old) + i] = [id |-> _hash(texts[i]), text |-> texts[i]]]_vars

C12_Witness ==
  /\ last.op = "add" /\ last.err = "none"
  /\ last.arg = << <<"a">>, <<>> >>
  /\ Len(Persisted(disk, "s1")) = 4
  /\ Persisted(disk, "s1")[1].text = <<>>
  /\ Persisted(disk, "s1")[2].text = <<"a">>

\* The label row of a search that breaks ties by insertion position, the
\* earlier vector first.
RECURSIVE StableTopK(_, _, _, _)
StableTopK(S, index, q, k) ==
  IF k = 0 THEN <<>>
  ELSE IF S = {} THEN [i \in 1..k |-> -1]
  ELSE LET best == {i \in S : \A j \in S : Score(index[j], q) <= Score(index[i], q)}
           first == CHOOSE i \in best : \A j \in best : i <= j
       IN  <<first - 1>> \o StableTopK(S \ {first}, index, q, k - 1)

\* C13: the texts retrieve returns are in descending order of their
\* similarity to the query, and they are the texts a search yields that puts
\* vectors of equal score in insertion order, the earlier one first.
C13_DescendingStableOrder ==
  (last.op = "retrieve" /\ last.err = "none") =>
    LET q == Embed(last.arg[1])
        index == disk[_index_path(last.sid)].data
        meta == _load_metadata(disk, last.sid)
    IN  /\ \A i, j \in DOMAIN last.out :
             i < j => Score(Embed(last.out[i]), q) >= Score(Embed(last.out[j]), q)
        /\ last.out = MapLabels(StableTopK(1..Len(index), index, q, K), meta)

\* C14: once add_documents calls that ran to completion have persisted a
\* session, the result of a retrieve call is fixed by the persisted index,
\* the persisted metadata and the query: whatever the process did before, the
\* call returns the one list a search of the files on disk yields, which is
\* what any other process reading the same files returns.
C14_IdempotentReload ==
  (last.op = "retrieve" /\ last.err = "none") =>
    _search_index(disk, last.sid, last.arg[1], K) = {last.out}

C14_Witness ==
  /\ last.op = "retrieve" /\ last.err = "none"
  /\ Count(MetaTexts(disk, last.sid), <<"a">>) = 2
  /\ Count(MetaTexts(disk, last.sid), <<>>) = 1
  /\ Len(last.out) = 3
  /\ last.out[1] = <<>>

\* The (role, content) pairs of the rows of session s in table t, in the
\* order add_message appended them.
InAppendOrder(t, s) ==
  LET R == SessionRows(t, s)
      f == CHOOSE g \in [1..Cardinality(R) -> R] : \A i, j \in DOMAIN g : i < j => g[i] < g[j]
  IN  [i \in DOMAIN f |-> <<t[f[i]].role, t[f[i]].content>>]

\* C15: get_history(s) returns exactly the messages that add_message(s, ...)
\* appended, in the order they were appended, also when messages of the
\* session carry the same created_at.
C15_HistoryInAppendOrder ==
  [][history' # history => history'.rows = InAppendOrder(table, history'.session_id)]_vars

\* Whether position idx of a search result names a record of the list meta.
Matched(idx, meta) == 0 <= idx /\ idx < Len(meta)

\* C16: retrieve skips every position the search returns that names no
\* metadata record (a negative one, or one at or past the number of
\* records) and still returns: its result is the texts of the records at the
\* remaining positions, in the order the search returned them.
C16_UnmatchedPositionsSkipped ==
  (last.op = "retrieve" /\ last.err = "none" /\ disk[_index_path(last.sid)].exists) =>
    LET index == disk[_index_path(last.sid)].data
        meta == Persisted(disk, last.sid)
    IN  \E I \in IndexSearch(index, Embed(last.arg[1]), K) :
          LET rest == SelectSeq(I, LAMBDA idx : Matched(idx, meta))
          IN  last.out = [i \in DOMAIN rest |-> meta[rest[i] + 1].text]

\* The best-scoring position (2) has no record and a padding position (-1)
\* is returned; the records at positions 0 and 1 are.
C16_Witness ==
  /\ last.op = "retrieve" /\ last.err = "none"
  /\ last.arg = << <<"a">> >>
  /\ disk[_index_path(last.sid)].data = << <<0, 1>>, <<0, 1>>, <<1, 0>> >>
  /\ MetaTexts(disk, last.sid) = << <<>>, <<"a">> >>
  /\ last.out = << <<>>, <<"a">> >>

\* How many vectors the index of session s on disk d holds beyond its
\* metadata records.
Excess(d, s) == IndexLen(d, s) - MetaLen(d, s)

\* C17: an add_documents call that returns makes the persisted index and the
\* persisted metadata list of its session longer by the batch size each,
\* whatever their lengths were (an absent file counts 0), and adds one
\* record per text also for texts already stored. So no add_documents or
\* retrieve call, returning or raising, makes the difference of the two
\* lengths smaller.
C17_LengthsGrowByBatchSize ==
  [][/\ (last'.op = "add" /\ last'.err = "none") =>
          LET s == last'.sid
              docs == last'.arg
          IN  /\ IndexLen(disk', s) = IndexLen(disk, s) + Len(docs)
              /\ MetaLen(disk', s) = MetaLen(disk, s) + Len(docs)
              /\ \A t \in Texts :
                   Count(MetaTexts(disk', s), t) = Count(MetaTexts(disk, s), t) + Count(docs, t)
     /\ \A s \in Sessions : Excess(disk', s) >= Excess(disk, s)]_vars

\* A batch whose first attempt failed at the metadata write has been stored
\* twice more: the excess of 1 is still there and the text is recorded twice.
C17_Witness ==
  /\ last.op = "add" /\ last.err = "none"
  /\ last.arg = << <<"a">> >>
  /\ IndexLen(disk, last.sid) = 3
  /\ MetaTexts(disk, last.sid) = << <<"a">>, <<"a">> >>

\* C18: a retrieve call, whether it returns or raises, leaves the index file
\* and the metadata file of every session as they were: none is created,
\* modified or removed.
C18_RetrieveReadOnly ==
  [][last'.op = "retrieve" =>
       \A p \in Paths : disk'[p] = disk[p]]_vars

C18_Witness ==
  /\ last.op = "retrieve" /\ last.err = "read_index"
  /\ disk[_index_path(last.sid)].exists
  /\ ~disk[_metadata_path(last.sid)].exists

\* The input is a slash command (every command word of the model starts with
\* a slash, no plain message does).
IsCommand(input) == input # <<>> /\ input \notin UserMessages

C20_ResumeOnlyListedIndex ==
  chosen.session_id # "none" =>
    LET n == Len(chosen.sessions)
        listed == IsInt(chosen.choice) /\ 1 <= int(chosen.choice) /\ int(chosen.choice) <= n
    IN  IF listed
        THEN chosen.session_id = chosen.sessions[int(chosen.choice)][1]
        ELSE chosen.session_id = NewSession

====
